---- MODULE Spec2Model ----
(***************************************************************************)
(* A model of bevy-bird (src/src/main.rs): a Bevy 0.9 application with the *)
(* iyes_loopless state stage and the bevy_rapier2d physics stages.         *)
(*                                                                         *)
(* One frame of App::run is the sequence of stages                         *)
(*   First/PreUpdate  (event buffers swap, keyboard input)    BeginFrame   *)
(*   StateTransition  (loopless: exit/enter systems)          Transition*  *)
(*   Update           (toggle_pause and the ConditionSet)     Update*      *)
(*   Physics          (rapier step, events written)           PhysicsStep  *)
(* Floating point quantities are integers: every constant of the program   *)
(* is integral and the environment moves the flyer on an integer grid.     *)
(***************************************************************************)
EXTENDS Integers, Sequences, FiniteSets, TLC

VARIABLES
    stage,      \* position of the frame loop (which stage runs next)
    world,      \* the ECS World: resources, entities, event buffers, readers
    commands,   \* Commands queued by the systems of the running stage
    ran,        \* history: systems of the Update group just run that ran
    taps        \* history: presses of the P key so far

vars == <<stage, world, commands, ran, taps>>

----------------------------------------------------------------------------
(* Bounds of the model *)

\* Score is capped: physics emits no begin event that would pass it.
MaxScore == 2
\* Presses of the P key in one run.
MaxTaps == 2
\* Most ContactForceEvents one physics step writes.
MaxForceEvents == 2
\* Largest score the difficulty curve is evaluated at (SpecCurve).
MaxCurveScore == 310

(* Program constants *)
SCREEN_WIDTH == 1280
SCREEN_HEIGHT == 720
\* f32::MIN, the maximum obstacle x when there is no obstacle: any value
\* far below every flyer position behaves the same in spawn_obstacles.
F32_MIN == -1000000

Keys == {"P", "Space"}

None == << >>
Some(v) == <<v>>
IsSome(o) == Len(o) = 1
Get(o) == o[1]

Max(a, b) == IF a >= b THEN a ELSE b
Min(a, b) == IF a <= b THEN a ELSE b

\* The maximum of a finite set of integers, or dflt when it is empty
\* (Iterator::max().unwrap_or(dflt)).
MaxOr(S, dflt) == IF S = {} THEN dflt ELSE CHOOSE m \in S : \A n \in S : n <= m

\* Query::single(): the only element (the program panics otherwise).
Single(S) == CHOOSE e \in S : TRUE

ScoreDefault == 0

ObstacleConfigDefault ==
    [min_x_between |-> 650, y_mid_range |-> <<-100, 100>>, y_mid_offset |-> 125]

----------------------------------------------------------------------------
(* Run conditions and resources *)

\* fn is_paused
is_paused(w) == w.paused

\* run_in_state(GameState::Running)
in_running(w) == w.state = "Running"

\* Events not yet seen by a reader: the old buffer then the new one, past
\* the reader's cursor (EventReader::iter).
UnreadCollisions(w, reader) ==
    LET all == w.collision_events.a \o w.collision_events.b
    IN  SubSeq(all, w.readers[reader] + 1, Len(all))

UnreadForces(w, reader) ==
    (w.force_events.a + w.force_events.b) - w.readers[reader]

\* A reader that has iterated has seen every buffered event.
MarkCollisionsRead(w, reader) ==
    [w EXCEPT !.readers[reader] =
        Len(w.collision_events.a) + Len(w.collision_events.b)]

MarkForcesRead(w, reader) ==
    [w EXCEPT !.readers[reader] = w.force_events.a + w.force_events.b]

----------------------------------------------------------------------------
(* The systems of the ConditionSet that change the World directly *)

\* A variant of toggle_pause that derives the time scale from PauseState as
\* it was before the flip.
toggle_pause_stale(w) ==
    IF "P" \in w.keys.just_pressed
    THEN [w EXCEPT !.paused = ~w.paused,
                   !.time_scale = IF w.paused THEN 0 ELSE 1]
    ELSE w

\* fn toggle_pause
toggle_pause(w) ==
    IF "P" \in w.keys.just_pressed
    THEN [w EXCEPT !.paused = ~w.paused,
                   !.time_scale = IF ~w.paused THEN 0 ELSE 1]
    ELSE w

\* atan2 of the normalized velocity, scaled: its sign is the sign of the
\* vertical velocity, and the NaN of a zero velocity becomes 0.
Rotation(vy) == IF vy = 0 THEN 0 ELSE IF vy > 0 THEN 1 ELSE -1

\* fn bird_rotates_with_velocity
bird_rotates_with_velocity(w) ==
    LET bird == Single(w.birds)
    IN  IF ~bird.alive
        THEN w
        ELSE [w EXCEPT !.birds = {[bird EXCEPT !.rot = Rotation(bird.vy)]}]

\* A variant of jump_on_space that does not look at the alive flag.
jump_on_space_any(w) ==
    IF "Space" \notin w.keys.just_pressed
    THEN w
    ELSE LET b == Single(w.birds)
         IN  [w EXCEPT !.birds = {[b EXCEPT !.vy = 0, !.impulse = 50]}]

\* fn jump_on_space
jump_on_space(w) ==
    IF "Space" \notin w.keys.just_pressed
    THEN w
    ELSE LET b == Single(w.birds)
         IN  IF ~b.alive
             THEN w
             ELSE [w EXCEPT !.birds = {[b EXCEPT !.vy = 0, !.impulse = 50]}]

\* A variant of the loop of increment_score that counts every event, the
\* Stopped ones too.
ScoreAfterAny(events, score) == score + Len(events)

\* The loop of increment_score over the events its reader yields.
RECURSIVE ScoreAfter(_, _)
ScoreAfter(events, score) ==
    IF events = << >>
    THEN score
    ELSE IF Head(events) # "Started"
         THEN ScoreAfter(Tail(events), score)
         ELSE ScoreAfter(Tail(events), score + 1)

\* A variant of increment_score that scores only for a living flyer.
increment_score_if_alive(w) ==
    LET events == UnreadCollisions(w, "increment_score")
        after == IF Single(w.birds).alive
                 THEN Get(w.score) + Cardinality({i \in 1..Len(events) :
                                                    events[i] = "Started"})
                 ELSE Get(w.score)
        w1 == MarkCollisionsRead(w, "increment_score")
    IN  [w1 EXCEPT !.score = Some(after),
                   !.score_changed = w.score_changed \/ after # Get(w.score)]

\* fn increment_score: Score is marked changed only when it is written.
\* (Score is an i32; the model keeps it far below i32::MAX.)
increment_score(w) ==
    LET events == UnreadCollisions(w, "increment_score")
        after == ScoreAfter(events, Get(w.score))
        wrote == \E i \in 1..Len(events) : events[i] = "Started"
        w1 == MarkCollisionsRead(w, "increment_score")
    IN  [w1 EXCEPT !.score = Some(after),
                   !.score_changed = w.score_changed \/ wrote]

\* A variant of kill_bird_on_collision that flips the alive flag.
kill_bird_on_collision_toggle(w) ==
    LET bird == Single(w.birds)
    IN  [w EXCEPT !.birds = {[bird EXCEPT !.memberships = "NONE",
                                          !.filters = "NONE",
                                          !.alive = ~bird.alive]}]

\* fn kill_bird_on_collision
kill_bird_on_collision(w) ==
    LET bird == Single(w.birds)
    IN  [w EXCEPT !.birds = {[bird EXCEPT !.memberships = "NONE",
                                          !.filters = "NONE",
                                          !.alive = FALSE]}]

\* fn camera_follows_bird
camera_follows_bird(w) ==
    LET camera == Single(w.cameras)
        bird == Single(w.birds)
    IN  [w EXCEPT !.cameras = {[camera EXCEPT !.x = bird.x]}]

\* fn bounds_follow_bird
bounds_follow_bird(w) ==
    LET bird_x == Single(w.birds).x
    IN  [w EXCEPT !.bounds =
            {[b EXCEPT !.x = bird_x - SCREEN_WIDTH \div 2] : b \in w.bounds}]

\* A variant of score_increases_difficulty without the floors of the spacing
\* and of the gap.
score_increases_difficulty_unclamped(w) ==
    IF ~w.score_changed
    THEN w
    ELSE LET score == Get(w.score)
         IN  [w EXCEPT
                !.score_changed = FALSE,
                !.obstacle_config = Some(
                  [min_x_between |-> ObstacleConfigDefault.min_x_between - score,
                   y_mid_offset |-> ObstacleConfigDefault.y_mid_offset - score,
                   y_mid_range |->
                      << -(Max(200, ObstacleConfigDefault.y_mid_range[1] - score)),
                         Min(200, ObstacleConfigDefault.y_mid_range[2] + score) >>])]

\* fn score_increases_difficulty. In the source the lower end of the range
\* is written -200.0_f32.max(..): the method call binds tighter than the
\* unary minus, so it is -(200.max(..)).
score_increases_difficulty(w) ==
    IF ~w.score_changed
    THEN w
    ELSE LET score == Get(w.score)
             default_obstacle_config == ObstacleConfigDefault
         IN  [w EXCEPT
                !.score_changed = FALSE,
                !.obstacle_config = Some(
                  [min_x_between |->
                      Max(500, default_obstacle_config.min_x_between - score),
                   y_mid_offset |->
                      Max(100, default_obstacle_config.y_mid_offset - score),
                   y_mid_range |->
                      << -(Max(200, default_obstacle_config.y_mid_range[1] - score)),
                         Min(200, default_obstacle_config.y_mid_range[2] + score) >>])]

----------------------------------------------------------------------------
(* The systems that queue Commands (applied when the stage ends) *)

SpawnCmd(kind, e) == [op |-> "spawn", kind |-> kind, e |-> e]
DespawnCmd(kind, e) == [op |-> "despawn", kind |-> kind, e |-> e]
NextStateCmd(s) == [op |-> "insert_next_state", kind |-> "state", e |-> s]

\* A variant of spawn_obstacles that compares the size of the distance to
\* the last obstacle, whichever side of it the spawn point is on.
spawn_obstacles_abs(w, rnd) ==
    LET max_obstacle_x == MaxOr({o.x : o \in w.obstacles}, F32_MIN)
        spawn_at == Single(w.birds).x + SCREEN_WIDTH \div 2 + 50
        obstacle_config == Get(w.obstacle_config)
        range == obstacle_config.y_mid_range
        y_mid == (rnd * (range[2] - range[1])) \div 2 + range[1]
        distance == IF spawn_at >= max_obstacle_x
                    THEN spawn_at - max_obstacle_x
                    ELSE max_obstacle_x - spawn_at
    IN  IF distance < obstacle_config.min_x_between
        THEN << >>
        ELSE << SpawnCmd("obstacles",
                  [x |-> spawn_at, y_mid |-> y_mid,
                   y_mid_offset |-> obstacle_config.y_mid_offset,
                   min_x_at_spawn |-> obstacle_config.min_x_between]) >>

\* A variant of spawn_obstacles that spawns on the screen edge, without the
\* margin of 50.
spawn_obstacles_at_edge(w, rnd) ==
    LET max_obstacle_x == MaxOr({o.x : o \in w.obstacles}, F32_MIN)
        spawn_at == Single(w.birds).x + SCREEN_WIDTH \div 2
        obstacle_config == Get(w.obstacle_config)
        range == obstacle_config.y_mid_range
        y_mid == (rnd * (range[2] - range[1])) \div 2 + range[1]
    IN  IF spawn_at - max_obstacle_x < obstacle_config.min_x_between
        THEN << >>
        ELSE << SpawnCmd("obstacles",
                  [x |-> spawn_at, y_mid |-> y_mid,
                   y_mid_offset |-> obstacle_config.y_mid_offset,
                   min_x_at_spawn |-> obstacle_config.min_x_between]) >>

\* fn spawn_obstacles. rnd is the draw of random::<f32>() in halves
\* (a value of [0, 1)). min_x_at_spawn is history: the spacing in effect at
\* the spawn.
spawn_obstacles(w, rnd) ==
    LET max_obstacle_x == MaxOr({o.x : o \in w.obstacles}, F32_MIN)
        bird == Single(w.birds)
        bird_x == bird.x
        screen_edge == bird_x + SCREEN_WIDTH \div 2
        spawn_at == screen_edge + 50
        obstacle_config == Get(w.obstacle_config)
        range == obstacle_config.y_mid_range
        y_mid == (rnd * (range[2] - range[1])) \div 2 + range[1]
    IN  IF spawn_at - max_obstacle_x < obstacle_config.min_x_between
        THEN << >>
        ELSE << SpawnCmd("obstacles",
                  [x |-> spawn_at, y_mid |-> y_mid,
                   y_mid_offset |-> obstacle_config.y_mid_offset,
                   min_x_at_spawn |-> obstacle_config.min_x_between]) >>

\* A sequence listing the elements of a finite set.
RECURSIVE SeqOf(_)
SeqOf(S) ==
    IF S = {} THEN << >>
    ELSE LET e == CHOOSE x \in S : TRUE IN <<e>> \o SeqOf(S \ {e})

\* fn tiling_background
tiling_background(w) ==
    LET camera == Single(w.cameras)
        max_covered_x == MaxOr({t.x + SCREEN_WIDTH : t \in w.tiles}, 0)
        cover_until_x == camera.x + SCREEN_WIDTH
        spawned == IF max_covered_x < cover_until_x
                   THEN << SpawnCmd("tiles", [x |-> max_covered_x]) >>
                   ELSE << >>
        behind == {t \in w.tiles : t.x < camera.x - SCREEN_WIDTH * 2}
    IN  spawned \o [i \in 1..Cardinality(behind) |->
                        DespawnCmd("tiles", SeqOf(behind)[i])]

\* A variant of despawn_offscreen_obstacles that also takes the obstacle on
\* the limit.
despawn_offscreen_obstacles_inclusive(w) ==
    LET despawn_from == Single(w.birds).x - SCREEN_WIDTH \div 2 - 50
        gone == {o \in w.obstacles : o.x <= despawn_from}
    IN  [i \in 1..Cardinality(gone) |-> DespawnCmd("obstacles", SeqOf(gone)[i])]

\* fn despawn_offscreen_obstacles
despawn_offscreen_obstacles(w) ==
    LET bird == Single(w.birds)
        screen_edge == bird.x - SCREEN_WIDTH \div 2
        despawn_from == screen_edge - 50
        gone == {o \in w.obstacles : ~(o.x >= despawn_from)}
    IN  [i \in 1..Cardinality(gone) |-> DespawnCmd("obstacles", SeqOf(gone)[i])]

\* A variant of end_on_bird_leaves_screen whose limits are inclusive.
end_on_bird_leaves_screen_inclusive(w) ==
    LET bird_y == Single(w.birds).y
    IN  IF \/ bird_y <= (-1 * SCREEN_HEIGHT) \div 2 - 50
           \/ bird_y >= SCREEN_HEIGHT \div 2 + 50
        THEN << NextStateCmd("Ended") >>
        ELSE << >>

\* A variant of end_on_bird_leaves_screen that watches a living flyer only.
end_on_bird_leaves_screen_alive(w) ==
    LET bird == Single(w.birds)
    IN  IF /\ bird.alive
           /\ \/ bird.y < (-1 * SCREEN_HEIGHT) \div 2 - 50
              \/ bird.y > SCREEN_HEIGHT \div 2 + 50
        THEN << NextStateCmd("Ended") >>
        ELSE << >>

\* fn end_on_bird_leaves_screen
end_on_bird_leaves_screen(w) ==
    LET bird == Single(w.birds)
        bird_y == bird.y
        margin == 50
    IN  IF \/ bird_y < (-1 * SCREEN_HEIGHT) \div 2 - margin
           \/ bird_y > SCREEN_HEIGHT \div 2 + margin
        THEN << NextStateCmd("Ended") >>
        ELSE << >>

\* A variant of immediately_restart_game that requests nothing.
immediately_restart_game_never(w) == << >>

\* fn immediately_restart_game
immediately_restart_game(w) == << NextStateCmd("Running") >>

InsertResourceCmd(name, v) == [op |-> "insert_resource", kind |-> name, e |-> v]
RemoveResourceCmd(name) == [op |-> "remove_resource", kind |-> name, e |-> 0]

\* One queued command applied to the World. An entity kind is the name of
\* the World's set of such entities; despawn_recursive takes the children
\* (walls, sensor, text) with the entity, which are part of its record.
\* A resource inserted is a resource changed.
ApplyCommand(w, c) ==
    CASE c.op = "insert_next_state" -> [w EXCEPT !.next_state = Some(c.e)]
      [] c.op = "spawn" -> [w EXCEPT ![c.kind] = @ \cup {c.e}]
      [] c.op = "despawn" -> [w EXCEPT ![c.kind] = @ \ {c.e}]
      [] c.op = "insert_resource" /\ c.kind = "score" ->
            [w EXCEPT !.score = Some(c.e), !.score_changed = TRUE]
      [] c.op = "insert_resource" /\ c.kind = "obstacle_config" ->
            [w EXCEPT !.obstacle_config = Some(c.e)]
      [] c.op = "remove_resource" -> [w EXCEPT ![c.kind] = None]

\* The stage's command queues applied in order.
RECURSIVE ApplyCommands(_, _)
ApplyCommands(w, cs) ==
    IF cs = << >> THEN w ELSE ApplyCommands(ApplyCommand(w, Head(cs)), Tail(cs))

----------------------------------------------------------------------------
(* Startup, enter and exit systems *)

\* fn setup_camera
setup_camera == << SpawnCmd("cameras", [x |-> 0]) >>

\* fn reset_camera
reset_camera(w) ==
    LET camera == Single(w.cameras)
    IN  [w EXCEPT !.cameras = {[camera EXCEPT !.x = 0]}]

\* fn setup_bird
setup_bird ==
    << SpawnCmd("birds",
         [x |-> 0, y |-> 0, vy |-> 0, impulse |-> 0, rot |-> 0,
          memberships |-> "ALL", filters |-> "ALL", alive |-> TRUE]) >>

\* fn setup_bounds
setup_bounds ==
    << SpawnCmd("bounds", [x |-> 0, y |-> (-1 * SCREEN_HEIGHT) \div 2]),
       SpawnCmd("bounds", [x |-> 0, y |-> SCREEN_HEIGHT \div 2]) >>

\* fn setup_ui
setup_ui == << SpawnCmd("ui", [text |-> "Score: 0"]) >>

\* fn add_resource::<T>
add_resource(name) ==
    << InsertResourceCmd(name, IF name = "score" THEN ScoreDefault
                               ELSE ObstacleConfigDefault) >>

\* fn remove_resource::<T>
remove_resource(name) == << RemoveResourceCmd(name) >>

\* A variant of despawn_components that despawns one entity of the kind.
despawn_components_one(w, kind) ==
    IF w[kind] = {} THEN << >> ELSE << DespawnCmd(kind, Single(w[kind])) >>

\* fn despawn_components::<T>
despawn_components(w, kind) ==
    [i \in 1..Cardinality(w[kind]) |-> DespawnCmd(kind, SeqOf(w[kind])[i])]

\* The enter systems of a state (main: add_enter_system), then their
\* commands.
EnterState(w, s) ==
    IF s = "Running"
    THEN ApplyCommands(reset_camera(w),
            add_resource("obstacle_config") \o add_resource("score")
            \o setup_bird \o setup_bounds \o setup_ui)
    ELSE ApplyCommands(w, immediately_restart_game(w))

\* A variant of the exit systems that leaves the flyer.
ExitState_keeps_flyer(w, s) ==
    IF s = "Running"
    THEN ApplyCommands(w,
            despawn_components(w, "obstacles")
            \o despawn_components(w, "bounds") \o despawn_components(w, "ui")
            \o despawn_components(w, "tiles")
            \o remove_resource("obstacle_config") \o remove_resource("score"))
    ELSE w

\* The exit systems of a state (main: add_exit_system), then their commands.
ExitState(w, s) ==
    IF s = "Running"
    THEN ApplyCommands(w,
            despawn_components(w, "birds") \o despawn_components(w, "obstacles")
            \o despawn_components(w, "bounds") \o despawn_components(w, "ui")
            \o despawn_components(w, "tiles")
            \o remove_resource("obstacle_config") \o remove_resource("score"))
    ELSE w

----------------------------------------------------------------------------
(* The Update stage: toggle_pause and the ConditionSet (main)              *)
(*                                                                         *)
(* The executor runs the systems of a stage in an order the program does   *)
(* not fix. Systems that touch disjoint data commute, so the stage is      *)
(* modelled as groups of systems that conflict with each other, each       *)
(* group run in every order, and toggle_pause placed at every position of  *)
(* each order: the systems before the cut see PauseState as the frame      *)
(* began, those after it see it toggled.                                   *)

ViewGroup == {"tiling_background", "camera_follows_bird"}
BirdGroup == {"jump_on_space", "kill_bird_on_collision",
              "bird_rotates_with_velocity"}
ScoreGroup == {"increment_score", "score_increases_difficulty",
               "spawn_obstacles"}

\* Every order of a group of systems.
Orders(group) ==
    {o \in [1..Cardinality(group) -> group] :
        \A i, j \in 1..Cardinality(group) : i # j => o[i] # o[j]}

\* The body of one system, its own run condition included
\* (run_on_event: a reader of the condition that counts the new events).
RunSystem(name, c, rnd) ==
    CASE name = "tiling_background" ->
            [c EXCEPT !.cmds = @ \o tiling_background(c.w),
                      !.ran = @ \cup {name}]
      [] name = "camera_follows_bird" ->
            [c EXCEPT !.w = camera_follows_bird(c.w), !.ran = @ \cup {name}]
      [] name = "jump_on_space" ->
            [c EXCEPT !.w = jump_on_space(c.w), !.ran = @ \cup {name}]
      [] name = "bird_rotates_with_velocity" ->
            [c EXCEPT !.w = bird_rotates_with_velocity(c.w),
                      !.ran = @ \cup {name}]
      [] name = "kill_bird_on_collision" ->
            IF UnreadForces(c.w, "kill_bird_on_event") > 0
            THEN [c EXCEPT
                    !.w = kill_bird_on_collision(
                              MarkForcesRead(c.w, "kill_bird_on_event")),
                    !.ran = @ \cup {name}]
            ELSE c
      [] name = "increment_score" ->
            IF Len(UnreadCollisions(c.w, "increment_score_on_event")) > 0
            THEN [c EXCEPT
                    !.w = increment_score(
                              MarkCollisionsRead(c.w, "increment_score_on_event")),
                    !.ran = @ \cup {name}]
            ELSE c
      [] name = "score_increases_difficulty" ->
            [c EXCEPT !.w = score_increases_difficulty(c.w),
                      !.ran = @ \cup {name}]
      [] name = "spawn_obstacles" ->
            [c EXCEPT !.cmds = @ \o spawn_obstacles(c.w, rnd),
                      !.ran = @ \cup {name}]
      [] name = "despawn_offscreen_obstacles" ->
            [c EXCEPT !.cmds = @ \o despawn_offscreen_obstacles(c.w),
                      !.ran = @ \cup {name}]
      [] name = "bounds_follow_bird" ->
            [c EXCEPT !.w = bounds_follow_bird(c.w), !.ran = @ \cup {name}]
      [] name = "end_on_bird_leaves_screen" ->
            [c EXCEPT !.cmds = @ \o end_on_bird_leaves_screen(c.w),
                      !.ran = @ \cup {name}]

\* A system of the ConditionSet: run_in_state(Running), run_if_not(is_paused)
\* and then the system. view is the World as the system reads PauseState.
Conditional(name, c, view, rnd) ==
    IF in_running(c.w) /\ ~is_paused(view)
    THEN RunSystem(name, c, rnd)
    ELSE c

\* The systems of order from the i-th on, toggle_pause running after the
\* cut-th of them.
RECURSIVE RunSystems(_, _, _, _, _)
RunSystems(order, cut, i, c, rnd) ==
    IF i > Len(order)
    THEN c
    ELSE LET view == IF i <= cut THEN c.w ELSE toggle_pause(c.w)
         IN  RunSystems(order, cut, i + 1,
                        Conditional(order[i], c, view, rnd), rnd)

\* Where toggle_pause can fall among n systems (it matters only when the
\* P key was just pressed).
Cuts(w, n) == IF "P" \in w.keys.just_pressed THEN 0..n ELSE {0}

\* One group of the Update stage, its systems run in an order of orders.
UpdateGroup(from, to, orders, rnds) ==
    /\ stage = from
    /\ \E order \in orders, rnd \in rnds :
        \E cut \in Cuts(world, Len(order)) :
          \E c \in {RunSystems(order, cut, 1,
                     [w |-> world, cmds |-> commands, ran |-> {}], rnd)} :
              /\ world' = c.w
              /\ commands' = c.cmds
              /\ ran' = c.ran
    /\ stage' = to
    /\ UNCHANGED taps

\* The systems of RestGroup conflict with no system: these orders let every
\* subset of them run before toggle_pause.
RestOrders ==
    { <<"despawn_offscreen_obstacles", "bounds_follow_bird",
        "end_on_bird_leaves_screen">>,
      <<"bounds_follow_bird", "end_on_bird_leaves_screen",
        "despawn_offscreen_obstacles">>,
      <<"end_on_bird_leaves_screen", "despawn_offscreen_obstacles",
        "bounds_follow_bird">> }

UpdateView == UpdateGroup("UpdateView", "UpdateBird", Orders(ViewGroup), {0})
UpdateBird == UpdateGroup("UpdateBird", "UpdateScore", Orders(BirdGroup), {0})
\* rnds: the draws of random::<f32>(), in halves.
UpdateScore(rnds) ==
    UpdateGroup("UpdateScore", "UpdateRest", Orders(ScoreGroup), rnds)
UpdateRest == UpdateGroup("UpdateRest", "UpdateEnd", RestOrders, {0})

\* The end of the Update stage: toggle_pause takes effect for the stages
\* that follow and the queued commands are applied.
UpdateEnd ==
    /\ stage = "UpdateEnd"
    /\ world' = ApplyCommands(toggle_pause(world), commands)
    /\ commands' = << >>
    /\ ran' = {}
    /\ stage' = "Physics"
    /\ UNCHANGED taps

----------------------------------------------------------------------------
(* The frame loop *)

\* The World as main builds it, before run(): PauseState(false), the
\* default RapierConfiguration (time scale 1), GameState::Running, nothing
\* spawned.
InitialWorld ==
               [state |-> "Running", state_init |-> FALSE, next_state |-> None,
                paused |-> FALSE, time_scale |-> 1,
                score |-> None, obstacle_config |-> None,
                score_changed |-> FALSE,
                keys |-> [pressed |-> {}, just_pressed |-> {}],
                cameras |-> {}, birds |-> {}, bounds |-> {}, ui |-> {},
                obstacles |-> {}, tiles |-> {},
                collision_events |-> [a |-> << >>, b |-> << >>],
                force_events |-> [a |-> 0, b |-> 0],
                readers |-> [increment_score_on_event |-> 0,
                             increment_score |-> 0,
                             kill_bird_on_event |-> 0]]

Init ==
    /\ stage = "Startup"
    /\ world = InitialWorld
    /\ commands = << >>
    /\ ran = {}
    /\ taps = 0

\* The startup stage: add_startup_system(setup_camera).
Startup ==
    /\ stage = "Startup"
    /\ world' = ApplyCommands(world, setup_camera)
    /\ stage' = "First"
    /\ UNCHANGED <<commands, ran, taps>>

\* Events::<T>::update: the new buffer becomes the old one, the old one is
\* dropped; a reader's cursor counts from the oldest buffered event.
UpdateEvents(w) ==
    [w EXCEPT
        !.collision_events = [a |-> w.collision_events.b, b |-> << >>],
        !.force_events = [a |-> w.force_events.b, b |-> 0],
        !.readers = [r \in DOMAIN w.readers |->
            IF r = "kill_bird_on_event"
            THEN Max(0, w.readers[r] - w.force_events.a)
            ELSE Max(0, w.readers[r] - Len(w.collision_events.a))]]

\* Input::<KeyCode>: clear() forgets just_pressed, then press inserts a key
\* into just_pressed only if it was not pressed, and release removes it.
\* A tap is a press and a release within one frame.
UpdateInput(w, ev) ==
    [w EXCEPT !.keys =
        [pressed |-> (w.keys.pressed \cup {k \in Keys : ev[k] = "press"})
                        \ {k \in Keys : ev[k] \in {"release", "tap"}},
         just_pressed |-> {k \in Keys : /\ ev[k] \in {"press", "tap"}
                                        /\ k \notin w.keys.pressed}]]

\* The stages First and PreUpdate. evs: the keyboard events of the frame.
BeginFrame(evs) ==
    /\ stage = "First"
    /\ \E ev \in evs :
          LET presses == IF ev["P"] \in {"press", "tap"} THEN 1 ELSE 0
          IN  /\ taps + presses <= MaxTaps
              /\ taps' = taps + presses
              /\ world' = UpdateInput(UpdateEvents(world), ev)
    /\ stage' = "Transition"
    /\ UNCHANGED <<commands, ran>>

\* The state transition stage, first run: the enter systems of the initial
\* state.
TransitionInit ==
    /\ stage = "Transition"
    /\ ~world.state_init
    /\ world' = EnterState([world EXCEPT !.state_init = TRUE], world.state)
    /\ UNCHANGED <<stage, commands, ran, taps>>

\* The state transition stage, one turn of its loop: NextState is taken,
\* the exit systems of the current state run, the state changes, the enter
\* systems of the new state run.
TransitionStep ==
    /\ stage = "Transition"
    /\ world.state_init
    /\ IsSome(world.next_state)
    /\ LET next == Get(world.next_state)
           exited == ExitState([world EXCEPT !.next_state = None], world.state)
       IN  world' = EnterState([exited EXCEPT !.state = next], next)
    /\ UNCHANGED <<stage, commands, ran, taps>>

\* The state transition stage ends when no NextState is left.
TransitionEnd ==
    /\ stage = "Transition"
    /\ world.state_init
    /\ ~IsSome(world.next_state)
    /\ stage' = "UpdateView"
    /\ UNCHANGED <<world, commands, ran, taps>>

\* The rapier stages after Update. The flyer's ExternalImpulse is applied
\* and reset; with time scale 0 nothing moves and nothing is detected.
\* Otherwise the flyer is moved to a position of xs, ys and events are
\* written to the new buffers: batch of CollisionEvents, n
\* ContactForceEvents. The flyer rises or, under gravity, falls. A flyer
\* with collision groups NONE touches nothing (no begin event, no contact
\* force) and does not rise.
PhysicsStep(xs, ys, batches, forces) ==
    /\ stage = "Physics"
    /\ LET bird == Single(world.birds)
       IN  IF world.time_scale = 0
           THEN world' = [world EXCEPT !.birds =
                    {[bird EXCEPT !.impulse = 0,
                                  !.vy = IF bird.impulse # 0 THEN 300 ELSE @]}]
           ELSE \E x \in xs, y \in ys, batch \in batches, n \in forces :
                  /\ bird.memberships = "NONE" =>
                        /\ y <= bird.y /\ n = 0
                        /\ \A i \in 1..Len(batch) : batch[i] # "Started"
                  /\ ScoreAfter(batch, Get(world.score)) <= MaxScore
                  /\ world' = [world EXCEPT
                        !.birds = {[bird EXCEPT
                            !.x = x, !.y = y, !.impulse = 0,
                            !.vy = IF y > bird.y THEN 300 ELSE -300]},
                        !.collision_events.b = @ \o batch,
                        !.force_events.b = @ + n]
    /\ stage' = "First"
    /\ UNCHANGED <<commands, ran, taps>>

----------------------------------------------------------------------------
(* Specifications: the program under different environments *)

KeyEvents == [Keys -> {"none", "press", "release", "tap"}]
NoKeys == {[k \in Keys |-> "none"]}
\* The P key tapped or not.
PauseTaps == {e \in KeyEvents : e["Space"] = "none" /\ e["P"] \in {"none", "tap"}}

\* Sessions: the flyer scrolls, scores, is hit, leaves the screen.
Next ==
    \/ Startup
    \/ BeginFrame(NoKeys)
    \/ TransitionInit
    \/ TransitionStep
    \/ TransitionEnd
    \/ UpdateView
    \/ UpdateBird
    \/ UpdateScore({0})
    \/ UpdateRest
    \/ UpdateEnd
    \/ PhysicsStep({0, 648}, {0, -411}, {<< >>, <<"Started">>},
                   0..MaxForceEvents)

Spec == Init /\ [][Next]_vars

\* Pausing: the P key, and the flyer at and around the edges of the screen.
NextPause ==
    \/ Startup
    \/ BeginFrame(PauseTaps)
    \/ TransitionInit
    \/ TransitionStep
    \/ TransitionEnd
    \/ UpdateView
    \/ UpdateBird
    \/ UpdateScore({0})
    \/ UpdateRest
    \/ UpdateEnd
    \/ PhysicsStep({0}, {-411, -410, 0, 410, 411}, {<< >>}, {0, 1})

SpecPause == Init /\ [][NextPause]_vars

\* Scoring: batches of collision events, the P key.
NextScore ==
    \/ Startup
    \/ BeginFrame(PauseTaps)
    \/ TransitionInit
    \/ TransitionStep
    \/ TransitionEnd
    \/ UpdateView
    \/ UpdateBird
    \/ UpdateScore({0})
    \/ UpdateRest
    \/ UpdateEnd
    \/ PhysicsStep({0}, {0, -411},
                   {<< >>, <<"Started">>, <<"Stopped">>,
                    <<"Started", "Started">>, <<"Stopped", "Started">>}, {0})

SpecScore == Init /\ [][NextScore]_vars

\* Scrolling: the flyer moves forward and backward, obstacles are spawned
\* with random gate centers and are reclaimed.
NextScroll ==
    \/ Startup
    \/ BeginFrame(NoKeys)
    \/ TransitionInit
    \/ TransitionStep
    \/ TransitionEnd
    \/ UpdateView
    \/ UpdateBird
    \/ UpdateScore({0, 1})
    \/ UpdateRest
    \/ UpdateEnd
    \/ PhysicsStep({0, 648, 1400}, {0, -411},
                   {<< >>, <<"Started">>, <<"Started", "Started">>}, {0})

SpecScroll == Init /\ [][NextScroll]_vars

\* The difficulty curve alone: Score is set to any value and raised, and
\* score_increases_difficulty evaluates it.
InitCurve ==
    /\ stage = "Curve"
    /\ \E s \in 0..MaxCurveScore :
          world = [InitialWorld EXCEPT
                      !.state_init = TRUE,
                      !.score = Some(s),
                      !.score_changed = TRUE,
                      !.obstacle_config = Some(ObstacleConfigDefault)]
    /\ commands = << >>
    /\ ran = {}
    /\ taps = 0

CurveEvaluate ==
    /\ stage = "Curve"
    /\ world.score_changed
    /\ world' = score_increases_difficulty(world)
    /\ UNCHANGED <<stage, commands, ran, taps>>

\* Score written again: unchanged (0), by one crossing, or by many.
CurveScore ==
    /\ stage = "Curve"
    /\ ~world.score_changed
    /\ \E d \in {0, 1, 300} :
          /\ Get(world.score) + d <= MaxCurveScore
          /\ world' = [world EXCEPT !.score = Some(Get(@) + d),
                                    !.score_changed = TRUE]
    /\ UNCHANGED <<stage, commands, ran, taps>>

NextCurve == CurveEvaluate \/ CurveScore

SpecCurve == InitCurve /\ [][NextCurve]_vars

----------------------------------------------------------------------------
(* Properties *)

\* The flyer of the running session.
Bird == Single(world.birds)

\* The number of Started events of a sequence of CollisionEvents.
CountStarted(events) ==
    Cardinality({i \in 1..Len(events) : events[i] = "Started"})

ScoreNeverNegative == IsSome(world.score) => Get(world.score) >= 0

\* A step within a session: Score does not decrease; the step of the update
\* that holds increment_score adds the number of Started events its reader
\* had left to read if the system ran, and nothing if it did not; no other
\* step changes Score.
ScoreStep ==
    (IsSome(world.score) /\ IsSome(world'.score)) =>
        /\ Get(world'.score) >= Get(world.score)
        /\ stage = "UpdateScore" =>
              Get(world'.score) - Get(world.score) =
                  IF "increment_score" \in ran'
                  THEN CountStarted(UnreadCollisions(world, "increment_score"))
                  ELSE 0
        /\ stage # "UpdateScore" => world'.score = world.score

\* C1: within a session Score is never negative and never decreases; a
\* tick in which increment_score runs adds exactly the number of Started
\* events read in it; Stopped events and ticks without events add nothing.
C1_ScoreCountsStarted == []ScoreNeverNegative /\ [][ScoreStep]_vars

\* increment_score has run on a batch with a Stopped and a Started event,
\* and Score went from 1 to 2.
C1_Witness ==
    /\ stage = "UpdateRest"
    /\ "increment_score" \in ran
    /\ world.score = Some(2)
    /\ world.collision_events.a = <<"Stopped", "Started">>

\* The World of a session that has just been set up.
FreshSession(w) ==
    /\ w.score = Some(0)
    /\ w.obstacle_config = Some([min_x_between |-> 650,
                                 y_mid_range |-> <<-100, 100>>,
                                 y_mid_offset |-> 125])
    /\ Cardinality(w.birds) = 1
    /\ \A b \in w.birds : b.alive /\ b.x = 0 /\ b.y = 0 /\ b.vy = 0
    /\ Cardinality(w.cameras) = 1
    /\ \A c \in w.cameras : c.x = 0
    /\ w.obstacles = {}
    /\ w.tiles = {}
    /\ w.bounds = {[x |-> 0, y |-> -360], [x |-> 0, y |-> 360]}

\* C2: right after every transition from Ended to Running, Score is 0,
\* ObstacleConfig is the default, there is one living flyer at the origin
\* with no velocity, the camera is at x = 0, and no obstacle, tile or bound
\* of the session before is left.
C2_RestartIsFresh ==
    [][(world.state = "Ended" /\ world'.state = "Running")
          => FreshSession(world')]_vars

\* A restart has just happened: the World is fresh and the events of the
\* last physics step of the session before are still buffered.
C2_Witness ==
    /\ stage = "Transition"
    /\ world.state = "Running"
    /\ ~IsSome(world.next_state)
    /\ FreshSession(world)
    /\ world.force_events.a > 0
    /\ world.collision_events.a # << >>

ObstaclesApart ==
    \A o1, o2 \in world.obstacles :
        /\ o1 # o2 => o1.x # o2.x
        /\ o1.x < o2.x => o2.x - o1.x >= o2.min_x_at_spawn

\* An obstacle lies beyond every obstacle there is, by the spacing recorded
\* at its spawn.
Beyond(new) ==
    \A o \in world.obstacles :
        new.x > o.x /\ new.x - o.x >= new.min_x_at_spawn

\* The obstacles a step queues or adds lie beyond every obstacle there was;
\* the spacing recorded is the ObstacleConfig's as spawn_obstacles found it
\* (before or after score_increases_difficulty, as the order has it).
SpawnStep ==
    /\ \A i \in (DOMAIN commands') \ (DOMAIN commands) :
          (commands'[i].op = "spawn" /\ commands'[i].kind = "obstacles") =>
              /\ commands'[i].e.min_x_at_spawn \in
                    {Get(world.obstacle_config).min_x_between,
                     Get(world'.obstacle_config).min_x_between}
              /\ Beyond(commands'[i].e)
    /\ \A new \in world'.obstacles \ world.obstacles : Beyond(new)

\* C3: two obstacles never share an x, a new obstacle lies beyond every
\* existing one, and by at least the min_x_between in effect at its spawn,
\* also when the flyer moves backward.
C3_ObstacleSpacing == []ObstaclesApart /\ [][SpawnStep]_vars

\* Two obstacles 648 apart, the second spawned under spacing 648, and the
\* flyer has since moved back to x = 0.
C3_Witness ==
    /\ world.birds # {}
    /\ Bird.x = 0
    /\ \E o1, o2 \in world.obstacles :
          o1.x = 690 /\ o2.x = 1338 /\ o2.min_x_at_spawn = 648

\* score_increases_difficulty has processed the Score.
Processed == stage = "Curve" /\ ~world.score_changed

\* C4: after score_increases_difficulty has processed s, min_x_between is
\* max(500, 650 - s) and y_mid_offset is max(100, 125 - s), so they are
\* never below 500 and 100 (and are exactly that at s = 300); evaluating
\* the same score again changes nothing.
C4_SpacingAndGapCurve ==
    LET s == Get(world.score)
        cfg == Get(world.obstacle_config)
    IN  /\ IsSome(world.obstacle_config) =>
              cfg.min_x_between >= 500 /\ cfg.y_mid_offset >= 100
        /\ Processed =>
              /\ cfg.min_x_between = (IF 650 - s > 500 THEN 650 - s ELSE 500)
              /\ cfg.y_mid_offset = (IF 125 - s > 100 THEN 125 - s ELSE 100)
              /\ s = 300 => cfg.min_x_between = 500 /\ cfg.y_mid_offset = 100
              /\ score_increases_difficulty(
                    [world EXCEPT !.score_changed = TRUE]) = world

\* Score 300 has been processed.
C4_Witness == Processed /\ world.score = Some(300)

\* C5: after score_increases_difficulty has processed s, y_mid_range is
\* [max(-200, -100 - s), min(200, 100 + s)]: symmetric, the default
\* [-100, 100] at s = 0, and [-200, 200] only from s = 100 on.
C5_RangeCurveSymmetric ==
    LET s == Get(world.score)
        range == Get(world.obstacle_config).y_mid_range
    IN  Processed =>
          /\ range[1] = (IF -100 - s > -200 THEN -100 - s ELSE -200)
          /\ range[2] = (IF 100 + s < 200 THEN 100 + s ELSE 200)
          /\ range[1] = -range[2]

\* The flyer of a Running session has been killed by a contact.
Killed ==
    /\ world.state = "Running"
    /\ world.birds # {}
    /\ ~Bird.alive

\* The physics of a flyer that stays on the screen or falls off it.
PhysicsFall == PhysicsStep({0}, {0, -411}, {<< >>}, {0, 1})

\* Pausing, contacts and a fall off the screen.
NextFall ==
    \/ Startup
    \/ BeginFrame(PauseTaps)
    \/ TransitionInit
    \/ TransitionStep
    \/ TransitionEnd
    \/ UpdateView
    \/ UpdateBird
    \/ UpdateScore({0})
    \/ UpdateRest
    \/ UpdateEnd
    \/ PhysicsFall

\* The dead flyer falls.
Falls ==
    /\ PhysicsFall
    /\ ~Bird.alive
    /\ Single(world'.birds).y < Bird.y

\* end_on_bird_leaves_screen runs.
BoundsCheck ==
    /\ UpdateRest
    /\ "end_on_bird_leaves_screen" \in ran'

\* The app keeps running its frames; a dead flyer that can fall does
\* (gravity); the out-of-bounds check, a system of every unpaused Running
\* frame, is run when such frames recur.
SpecFall ==
    /\ Init /\ [][NextFall]_vars
    /\ WF_vars(NextFall)
    /\ SF_vars(Falls)
    /\ SF_vars(BoundsCheck)

\* C6: if the game is not left paused forever, a session whose flyer
\* kill_bird_on_collision has killed enters Ended, with no input and no
\* event needed, and is reset.
C6_KilledLeadsToEnded ==
    /\ ([]<>(~world.paused)) => (Killed ~> (world.state = "Ended"))
    /\ [][world.state = "Ended" =>
            (world'.state = "Running" /\ FreshSession(world'))]_vars

\* A killed flyer in a paused session, still on the screen.
C6_Witness == Killed /\ world.paused /\ Bird.y = 0

\* C7: in an unpaused Running tick end_on_bird_leaves_screen requests Ended
\* if and only if the flyer's y is below -410 or above 410; for y in
\* [-410, 410] nothing is requested and the session stays Running, alive or
\* not.
C7_OutOfBoundsExactly ==
    (stage = "Physics" /\ ~world.paused /\ "P" \notin world.keys.just_pressed)
        => /\ world.state = "Running"
           /\ world.next_state =
                 IF Bird.y < -410 \/ Bird.y > 410 THEN Some("Ended") ELSE None

\* An unpaused tick has ended with a dead flyer on the lower limit and no
\* transition requested.
C7_Witness ==
    /\ stage = "Physics"
    /\ ~world.paused
    /\ "P" \notin world.keys.just_pressed
    /\ Bird.y = -410
    /\ ~Bird.alive
    /\ world.next_state = None

\* The World with its unread ContactForceEvents replaced by a single one.
OneForceEvent(w) ==
    [w EXCEPT !.force_events = [a |-> 1, b |-> 0],
              !.readers.kill_bird_on_event = 0]

\* kill_bird_on_collision, with its run condition, on a World.
Kill(w) ==
    RunSystem("kill_bird_on_collision",
              [w |-> w, cmds |-> << >>, ran |-> {}], 0).w

\* Where kill_bird_on_collision is about to run on k >= 1 events: the flyer
\* it leaves is the flyer one event leaves, and running it again (the
\* events of a following tick) changes nothing.
KillCoalesces ==
    (stage = "UpdateBird" /\ UnreadForces(world, "kill_bird_on_event") > 0)
        => /\ Kill(world).birds = Kill(OneForceEvent(world)).birds
           /\ kill_bird_on_collision(Kill(world)) = Kill(world)
           /\ ~Single(Kill(world).birds).alive

\* Ended is entered from Running only, and by the transition that destroys
\* the flyer; the request for it is taken by that transition.
EndedStep ==
    world'.state = "Ended" =>
        /\ world.state = "Running"
        /\ world.next_state = Some("Ended")
        /\ world'.birds = {}
        /\ world'.next_state # Some("Ended")

Increment(w) ==
    RunSystem("increment_score", [w |-> w, cmds |-> << >>, ran |-> {}], 0).w

\* A Started event and a ContactForceEvent are both unread.
BothPending ==
    /\ stage = "UpdateBird"
    /\ in_running(world) /\ ~is_paused(world)
    /\ UnreadForces(world, "kill_bird_on_event") > 0
    /\ CountStarted(UnreadCollisions(world, "increment_score")) = 1

\* C9: with a Started event and a ContactForceEvent both pending,
\* increment_score then kill_bird_on_collision and kill_bird_on_collision
\* then increment_score give the same state: Score one higher, the flyer
\* not alive and with collision groups NONE.
C9_ScoreAndKillCommute ==
    BothPending =>
        LET ik == Kill(Increment(world))
            ki == Increment(Kill(world))
        IN  /\ ik = ki
            /\ ik.score = Some(Get(world.score) + 1)
            /\ \A b \in ik.birds :
                  ~b.alive /\ b.memberships = "NONE" /\ b.filters = "NONE"

\* Both systems have run in one tick on such events: the flyer is dead and
\* the Score is 1.
C9_Witness ==
    /\ stage = "UpdateRest"
    /\ "increment_score" \in ran
    /\ world.readers.kill_bird_on_event > 0
    /\ world.collision_events.a = <<"Started">>
    /\ ~Bird.alive
    /\ world.score = Some(1)

GameplayStages ==
    {"UpdateView", "UpdateBird", "UpdateScore", "UpdateRest", "UpdateEnd",
     "Physics"}

\* Ended exists only inside the transition stage, with the restart
\* requested; the stages of the gameplay systems find Running.
EndedIsInTransition ==
    /\ world.state = "Ended" =>
          stage = "Transition" /\ world.next_state = Some("Running")
    /\ stage \in GameplayStages => world.state = "Running"

\* C10: every entry into Ended is followed, with no input and whatever
\* PauseState is, by a reset into Running before any gameplay system runs:
\* no gameplay system executes while the state is Ended.
C10_EndedIsTransient ==
    /\ []EndedIsInTransition
    /\ [][world.state = "Ended" =>
            (world'.state = "Running" /\ Cardinality(world'.birds) = 1
             /\ world'.score = Some(0))]_vars

\* Ended, entered while the game is paused.
C10_Witness == world.state = "Ended" /\ world.paused

\* The Space key pressed, held, released or tapped, the P key tapped or not.
JumpKeys == {e \in KeyEvents : e["P"] \in {"none", "tap"}}

\* Jumping, pausing, contacts and a fall off the screen.
NextJump ==
    \/ Startup
    \/ BeginFrame(JumpKeys)
    \/ TransitionInit
    \/ TransitionStep
    \/ TransitionEnd
    \/ UpdateView
    \/ UpdateBird
    \/ UpdateScore({0})
    \/ UpdateRest
    \/ UpdateEnd
    \/ PhysicsStep({0}, {0, -411}, {<< >>}, {0, 1})

SpecJump == Init /\ [][NextJump]_vars

\* The stages of the Update stage.
UpdateStages == {"UpdateView", "UpdateBird", "UpdateScore", "UpdateRest",
                 "UpdateEnd"}

\* A step that keeps a dead flyer: it stays dead with collision groups
\* NONE, and no system of the Update stage changes its velocity, its
\* impulse or its rotation.
DeadStep ==
    (world.birds # {} /\ world'.birds # {} /\ ~Bird.alive) =>
        LET after == Single(world'.birds)
        IN  /\ ~after.alive
            /\ after.memberships = "NONE" /\ after.filters = "NONE"
            /\ stage \in UpdateStages =>
                  /\ after.vy = Bird.vy
                  /\ after.impulse = Bird.impulse
                  /\ after.rot = Bird.rot

\* A dead flyer has collision groups NONE, and the jump and the rotation
\* systems leave its World as it is.
DeadIsInert ==
    (world.birds # {} /\ ~Bird.alive) =>
        /\ Bird.memberships = "NONE" /\ Bird.filters = "NONE"
        /\ jump_on_space(world) = world
        /\ bird_rotates_with_velocity(world) = world

\* C11: once alive is false it stays false and the collision groups stay
\* NONE until the flyer is destroyed at session exit; while it is false a
\* jump changes neither velocity nor impulse and the rotation is no longer
\* updated.
C11_DeadStaysDead == []DeadIsInert /\ [][DeadStep]_vars

\* jump_on_space has run with Space just pressed on a flyer that was dead
\* before the tick (no ContactForceEvent was there to read in it).
C11_Witness ==
    /\ stage = "UpdateScore"
    /\ "jump_on_space" \in ran
    /\ "Space" \in world.keys.just_pressed
    /\ ~Bird.alive
    /\ world.force_events.a = 0
    /\ Bird.impulse = 0

\* The time scale is 0 exactly when PauseState is true and 1 exactly when
\* it is false; once the stage of a frame has run toggle_pause, PauseState
\* is true exactly after an odd number of presses; toggling twice gives the
\* World back.
PauseMatchesTimeScale ==
    /\ world.paused <=> world.time_scale = 0
    /\ ~world.paused <=> world.time_scale = 1
    /\ stage \in {"Physics", "First"} => (world.paused <=> taps % 2 = 1)
    /\ "P" \in world.keys.just_pressed =>
          /\ toggle_pause(world).paused = ~world.paused
          /\ toggle_pause(toggle_pause(world)) = world

\* PauseState changes in the step that ends the Update stage of a frame in
\* which P was just pressed, and in no other step.
PauseStep ==
    world'.paused =
        IF stage = "UpdateEnd" /\ "P" \in world.keys.just_pressed
        THEN ~world.paused
        ELSE world.paused

\* C12: in every reachable state the time scale is 0 exactly when
\* PauseState is true and 1 exactly when it is false; each press of the
\* pause key flips PauseState once, and two presses restore PauseState and
\* the time scale.
C12_PauseAndTimeScale == []PauseMatchesTimeScale /\ [][PauseStep]_vars

\* The Update stage of the frame of the second press has ended: PauseState
\* is false and the time scale 1 again.
C12_Witness ==
    /\ stage = "Physics"
    /\ taps = 2
    /\ ~world.paused
    /\ world.time_scale = 1
    /\ "P" \in world.keys.just_pressed

\* PauseState as the running tick found it: toggle_pause takes effect in
\* the step that ends the Update stage.
TickStartedPaused ==
    IF stage = "Physics"
    THEN world.paused # ("P" \in world.keys.just_pressed)
    ELSE world.paused

\* A step of a tick that started paused: the session stays Running with its
\* flyer, and Score, ObstacleConfig, the alive flag, the obstacles and the
\* tiles are as they were.
PausedStep ==
    (TickStartedPaused /\ world.state_init) =>
        /\ world'.state = "Running" /\ world.state = "Running"
        /\ world'.score = world.score
        /\ world'.obstacle_config = world.obstacle_config
        /\ Cardinality(world'.birds) = 1
        /\ Single(world'.birds).alive = Bird.alive
        /\ world'.obstacles = world.obstacles
        /\ world'.tiles = world.tiles

\* C13: in every tick that starts with PauseState true no session
\* transition takes place, and Score, ObstacleConfig, the alive flag, the
\* obstacles and the tiles are left unchanged, also when the pause was
\* toggled in the tick of an out-of-bounds detection or of a scoring event.
C13_PausedTickChangesNothing == [][PausedStep]_vars

\* C14: in every tick in which a gameplay system runs, the first tick
\* after startup and after each restart included, exactly one flyer and
\* exactly one camera exist and Score and ObstacleConfig are present.
C14_SingletonsPresent ==
    stage \in UpdateStages =>
        /\ Cardinality(world.birds) = 1
        /\ Cardinality(world.cameras) = 1
        /\ IsSome(world.score)
        /\ IsSome(world.obstacle_config)

\* Gameplay systems have run in the first tick after a restart: no tile is
\* there yet, and events of the session before are still buffered.
C14_Witness ==
    /\ stage = "UpdateBird"
    /\ "tiling_background" \in ran
    /\ world.tiles = {}
    /\ world.force_events.a > 0

\* C15: every press of the jump key while the flyer is alive applies the
\* jump exactly once (vertical velocity 0, impulse 50), also when the game
\* is paused or the pause is toggled in that tick, and a key held applies
\* none. Stated where the Update stage of the tick has ended.
C15_JumpOncePerPress ==
    (stage = "Physics" /\ Bird.alive) =>
        IF "Space" \in world.keys.just_pressed
        THEN Bird.impulse = 50 /\ Bird.vy = 0
        ELSE Bird.impulse = 0

\* The flyer jumps ahead so that an obstacle is on the limit of the
\* reclamation, then behind it.
NextReclaim ==
    \/ Startup
    \/ BeginFrame(NoKeys)
    \/ TransitionInit
    \/ TransitionStep
    \/ TransitionEnd
    \/ UpdateView
    \/ UpdateBird
    \/ UpdateScore({0})
    \/ UpdateRest
    \/ UpdateEnd
    \/ PhysicsStep({0, 1380, 1400}, {0, -411}, {<< >>}, {0})

SpecReclaim == Init /\ [][NextReclaim]_vars

\* despawn_offscreen_obstacles and its commands applied.
Reclaim(w) == ApplyCommands(w, despawn_offscreen_obstacles(w))

\* Where the system is about to run: it destroys exactly the obstacles
\* (walls and sensor are part of the obstacle) with x < flyer.x - 690 and
\* nothing else, and a second run destroys nothing.
ReclaimIsExact ==
    stage = "UpdateRest" =>
        /\ Reclaim(world).obstacles =
              {o \in world.obstacles : ~(o.x < Bird.x - 690)}
        /\ [Reclaim(world) EXCEPT !.obstacles = world.obstacles] = world
        /\ despawn_offscreen_obstacles(Reclaim(world)) = << >>
        /\ Reclaim(Reclaim(world)) = Reclaim(world)

\* The obstacles that the end of the Update stage removes are behind the
\* limit.
ReclaimStep ==
    stage = "UpdateEnd" =>
        \A o \in world.obstacles \ world'.obstacles : o.x < Bird.x - 690

\* C16: despawn_offscreen_obstacles destroys exactly the obstacles whose x
\* is less than flyer.x - 690, with their children, and a second run with
\* the flyer where it was destroys nothing more.
C16_ReclaimIdempotent == []ReclaimIsExact /\ [][ReclaimStep]_vars

\* The system has run with the flyer at 1400: the obstacle at 690 is to be
\* destroyed, the one at 2070 (spawned when 690 was on the limit and kept)
\* stays.
C16_Witness ==
    /\ stage = "UpdateEnd"
    /\ "despawn_offscreen_obstacles" \in ran
    /\ Bird.x = 1400
    /\ \E i \in DOMAIN commands :
          commands[i].op = "despawn" /\ commands[i].kind = "obstacles"
          /\ commands[i].e.x = 690
    /\ \E o \in world.obstacles : o.x = 2070

\* The commands of a sequence that spawn obstacles.
ObstacleSpawns(cs) ==
    {i \in DOMAIN cs : cs[i].op = "spawn" /\ cs[i].kind = "obstacles"}

\* An obstacle is at flyer.x + 690 with its gate center inside a range.
SpawnedAhead(o, range) ==
    /\ o.x = Bird.x + 690
    /\ range[1] <= o.y_mid /\ o.y_mid <= range[2]

\* Where spawn_obstacles is about to run, for each draw: it queues at most
\* one obstacle, at flyer.x + 690 with the gate center inside the
\* y_mid_range of the ObstacleConfig, and it queues one when there is none.
SpawnsOneAhead ==
    stage = "UpdateScore" =>
        \A rnd \in {0, 1} :
            LET cs == spawn_obstacles(world, rnd)
            IN  /\ Len(cs) <= 1
                /\ ObstacleSpawns(cs) = DOMAIN cs
                /\ \A i \in DOMAIN cs :
                      SpawnedAhead(cs[i].e,
                                   Get(world.obstacle_config).y_mid_range)
                /\ world.obstacles = {} => Len(cs) = 1
                /\ (/\ world.obstacles = {} /\ Bird.x = 0
                    /\ Get(world.obstacle_config).min_x_between = 650)
                      => (Len(cs) = 1 /\ cs[1].e.x = 690)

\* A tick queues and adds at most one obstacle; the one queued is at
\* flyer.x + 690, inside the y_mid_range that spawn_obstacles found (before
\* or after score_increases_difficulty, as the order has it); and one is
\* queued when spawn_obstacles runs and there is no obstacle.
SpawnTick ==
    /\ stage = "UpdateScore" =>
          LET new == ObstacleSpawns(commands') \ ObstacleSpawns(commands)
          IN  /\ Cardinality(new) <= 1
              /\ \A i \in new :
                    \/ SpawnedAhead(commands'[i].e,
                                    Get(world.obstacle_config).y_mid_range)
                    \/ SpawnedAhead(commands'[i].e,
                                    Get(world'.obstacle_config).y_mid_range)
              /\ ("spawn_obstacles" \in ran' /\ world.obstacles = {})
                    => Cardinality(new) = 1
    /\ stage = "UpdateEnd" =>
          /\ Cardinality(world'.obstacles \ world.obstacles) <= 1
          /\ \A o \in world'.obstacles \ world.obstacles : o.x = Bird.x + 690

\* C17: spawn_obstacles creates at most one obstacle per tick, always at
\* flyer.x + 690 with a gate center inside the current y_mid_range, and it
\* creates one whenever no obstacle exists; with the flyer at 0, no
\* obstacle and min_x_between 650 it creates exactly one, at 690.
C17_SpawnAheadOfFlyer == []SpawnsOneAhead /\ [][SpawnTick]_vars

\* spawn_obstacles has run with the flyer at 0 and no obstacle: one
\* obstacle is queued, at 690, under spacing 650.
C17_Witness ==
    /\ stage = "UpdateRest"
    /\ "spawn_obstacles" \in ran
    /\ Bird.x = 0
    /\ world.obstacles = {}
    /\ Cardinality(ObstacleSpawns(commands)) = 1
    /\ \E i \in ObstacleSpawns(commands) :
          commands[i].e.x = 690 /\ commands[i].e.min_x_at_spawn = 650

\* The Started events of the old buffer that the reader of increment_score
\* has not read.
UnreadOldStarted ==
    CountStarted(SubSeq(world.collision_events.a,
                        world.readers.increment_score + 1,
                        Len(world.collision_events.a)))

\* C18: no Started event is lost: each is counted by increment_score, also
\* one that is unread when the game is paused, however long the pause
\* lasts. Stated where a frame is about to begin and Events::update is
\* about to drop the old buffer: no Started event in it is unread.
C18_NoStartedEventLost == stage = "First" => UnreadOldStarted = 0

\* The difficulty curve evaluated at the Score of a world.
DifficultyAt(w) ==
    Get(score_increases_difficulty([w EXCEPT !.score_changed = TRUE])
            .obstacle_config)

\* The obstacle spawns a step queues use the curve at the Score as the step
\* leaves it.
FreshSpawnStep ==
    \A i \in (DOMAIN commands') \ (DOMAIN commands) :
        (commands'[i].op = "spawn" /\ commands'[i].kind = "obstacles") =>
            LET e == commands'[i].e
                d == DifficultyAt(world')
            IN  /\ e.min_x_at_spawn = d.min_x_between
                /\ e.y_mid_offset = d.y_mid_offset
                /\ d.y_mid_range[1] <= e.y_mid
                /\ e.y_mid < d.y_mid_range[2]

\* An obstacle of the World keeps its gate half-height.
GateKeptStep ==
    \A o \in world.obstacles :
        \A p \in world'.obstacles :
            (p.x = o.x /\ p.y_mid = o.y_mid) => p.y_mid_offset = o.y_mid_offset

\* C19: for every order of the systems within a tick, an obstacle spawned
\* in the tick uses min_x_between, y_mid_range and y_mid_offset of the
\* difficulty curve at the Score as the tick's scoring events leave it, and
\* a spawned obstacle's gate half-height never changes.
C19_SpawnUsesFreshDifficulty == [][FreshSpawnStep /\ GateKeptStep]_vars

\* The Update stage of the first tick of a session: no physics step of the
\* session has run, and the first tile, which tiling_background queues in
\* this tick, is not yet spawned.
FirstUpdateOfSession ==
    /\ stage \in UpdateStages
    /\ world.state = "Running"
    /\ world.tiles = {}

\* C20: an event that the physics step of the last tick of a session
\* emitted is never consumed in the next session: in the first tick of a
\* session, before any physics step of it, Score is 0 and the flyer is
\* alive.
C20_SessionsIsolated ==
    FirstUpdateOfSession => (world.score = Some(0) /\ Bird.alive)

====
